---------------------------- MODULE Spec2Model ----------------------------
(***************************************************************************)
(* Model of the sigmacoder identity service: the auth service (SignUp,     *)
(* Login, LoginPhoneOtp), the user repository over one MongoDB collection, *)
(* the HTTP handlers of the register / login / sendotp / verifyotp routes  *)
(* and the Twilio Verify adapter they call.                                *)
(*                                                                         *)
(* Every HTTP request is handled by its own goroutine, so the model runs   *)
(* a fixed set of concurrent requests.  A request is cut into steps at the *)
(* calls that leave the process (a collection operation, the Twilio call); *)
(* everything between two such calls (comparing a digest, signing a token) *)
(* is local to the goroutine and belongs to the step of the call before.   *)
(*                                                                         *)
(* The MongoDB driver, the JWT signer and Twilio are collaborators whose   *)
(* code is not part of the repository.  Each of their calls returns one of *)
(* the outcomes its Go signature allows; the failure outcome is chosen     *)
(* nondeterministically ("fault").                                         *)
(*                                                                         *)
(* User fields that are only copied from the request to the record (name,  *)
(* profile picture, username, user type, date of birth, gender) are left   *)
(* out: no operation modelled here reads them.                             *)
(***************************************************************************)
EXTENDS Integers, Sequences, FiniteSets

VARIABLES
    store,      \* the "users" collection, in insertion (natural) order
    pendingOtp, \* Twilio Verify: phone numbers with a verification in flight
    nextId,     \* source of fresh identifiers (uuid.New) and bcrypt salts
    now,        \* wall clock, in hours
    pc,         \* per request: the step the handler is at
    req,        \* per request: the parsed body
    local,      \* per request: the handler's and service's local variables
    resp,       \* per request: the response written to the client
    hist        \* per request: what the collaborators returned (history)

vars == <<store, pendingOtp, nextId, now, pc, req, local, resp, hist>>

----------------------------------------------------------------------------
(* Bounds *)

\* identifiers that ToUser may draw (bounds the number of Create calls)
MaxIds == 2
\* last value of the wall clock, which starts at 0
MaxTime == 1

\* concurrent requests
Clients == {1, 2}

\* a password longer than bcrypt accepts (more than 72 bytes)
LongPassword == "p-longer-than-72-bytes"

\* request bodies of POST /api/auth/register
SignUpEmails == {"", "a@x.com"}
\* the same with a second address, for requests served one after the other
SignUpEmailsSeq == SignUpEmails \cup {"b@x.com"}
SignUpPasswords == {"p1", LongPassword}
SignUpPhones == {"+15550001"}

\* request bodies of POST /api/auth/login
LoginEmails == {"a@x.com", "b@x.com"}
LoginPasswords == {"p1", "p2", LongPassword}

\* request bodies of the OTP routes
SendPhones == {"+15550001"}
OtpPhones == {"+15550001", "+15550002"}
Codes == {"111111", "999999"}
\* the code Twilio sends to a phone
SentCode == "111111"

----------------------------------------------------------------------------
(* Values *)

\* routes
RouteRegister == "/api/auth/register"
RouteLogin == "/api/auth/login"
RouteSendOtp == "/api/auth/sendotp"
RouteVerifyOtp == "/api/auth/verifyotp"
Routes == {RouteRegister, RouteLogin, RouteSendOtp, RouteVerifyOtp}
RoutePing == "/"
RouteAllQuestions == "/api/all/allquestions"
RouteQuestionById == "/api/all/question/:id"
\* a path no route is registered for
RouteUnknown == "/api/unknown"
GetPaths == {RoutePing, RouteAllQuestions, RouteQuestionById, RouteUnknown}

\* Go's nil error
Nil == "nil"
ErrUserNotFound == "user not found"
ErrAlreadyExists == "user with id already exists"
\* errors of collaborators
ErrNoDocuments == "mongo: no documents in result"
ErrStore == "mongo: driver error"
ErrDuplicateKey == "mongo: E11000 duplicate key error"
ErrMismatchedHashAndPassword == "crypto/bcrypt: hashedPassword is not the hash of the given password"
ErrHashTooShort == "crypto/bcrypt: hashedSecret too short to be a bcrypted password"
ErrPasswordTooLong == "bcrypt: password length exceeds 72 bytes"
ErrSigning == "jwt: signing error"
ErrTwilio == "twilio: api error"
ErrBodyParse == "fiber: body parse error"
ErrDeadlineExceeded == "context deadline exceeded"
ErrMissingJwt == "Missing or malformed JWT"
ErrInvalidJwt == "Invalid or expired JWT"
ErrNoRoute == "Cannot GET"
PanicNilDeref == "panic: nil pointer dereference"

\* the empty string, for a digest and for a token
Empty == <<>>

\* the zero value of User (var user User)
ZeroUser ==
    [ID |-> 0, Email |-> "", PhoneNumber |-> "", Password |-> Empty, CreatedAt |-> 0]

\* os.Getenv("JWT_SECRET")
JwtSecret == "secret"

\* token validity window, in hours
HoursValid == 72

\* deadline of the context the OTP handlers derive, in seconds
appTimeout == 10

\* seconds a call to the store or to Twilio can take: within the deadline of
\* the request, or beyond it
CallSeconds == {0, appTimeout + 1}
\* a call that returns within the deadline
InTime == {s \in CallSeconds : s <= appTimeout}

----------------------------------------------------------------------------
(* Credential hasher (bcrypt) *)

\* bcrypt.GenerateFromPassword: a salted digest, or an error for a password
\* of more than 72 bytes
GenerateFromPassword(password, salt) ==
    IF password = LongPassword
    THEN [bytes |-> Empty, err |-> ErrPasswordTooLong]
    ELSE [bytes |-> <<salt, password>>, err |-> Nil]

\* []byte(password): the plaintext as bytes, comparable with a digest
Bytes(password) == IF password = "" THEN Empty ELSE <<password>>

\* the digests GenerateFromPassword can return without error
Digests ==
    {GenerateFromPassword(p, salt).bytes : p \in SignUpPasswords \ {LongPassword},
                                           salt \in 1..(MaxIds + 1)}

\* hashPassword drops the error of GenerateFromPassword and returns the bytes
hashPassword(password, salt) == GenerateFromPassword(password, salt).bytes

\* bcrypt.CompareHashAndPassword
CompareHashAndPassword(hash, password) ==
    IF hash = Empty THEN ErrHashTooShort
    ELSE IF hash[2] = password /\ password # LongPassword THEN Nil
    ELSE ErrMismatchedHashAndPassword

----------------------------------------------------------------------------
(* Token issuer (jwt HS256) *)

\* MapClaims with the email claim taken from the wrong field
MapClaimsWrongEmail(user, t) ==
    [userid |-> user.ID, email |-> user.PhoneNumber, exp |-> t + HoursValid]

\* MapClaims whose expiration does not follow the clock
MapClaimsFixedExp(user, t) ==
    [userid |-> user.ID, email |-> user.Email, exp |-> HoursValid]

\* jwt.MapClaims{"userid", "email", "exp"} built by the three service methods
MapClaims(user, t) ==
    [userid |-> user.ID, email |-> user.Email, exp |-> t + HoursValid]

\* SignedString that returns no token and no error
SignedStringNoToken(claims, secret, fault) == [token |-> Empty, err |-> Nil]

\* refreshToken.SignedString(secret): the claims followed by the signature,
\* or an error
SignedString(claims, secret, fault) ==
    IF fault THEN [token |-> Empty, err |-> ErrSigning]
    ELSE [token |-> <<claims.userid, claims.email, claims.exp, secret>>, err |-> Nil]

\* the claims a token carries (decoding)
TokenClaims(token) == [userid |-> token[1], email |-> token[2], exp |-> token[3]]

----------------------------------------------------------------------------
(* User store *)

\* positions of the documents whose field equals value
Matches(coll, field, value) == {i \in 1..Len(coll) : coll[i][field] = value}

Min(S) == CHOOSE x \in S : \A y \in S : x <= y

\* collection.FindOne(filter).Decode(&user): the first matching document in
\* natural order, ErrNoDocuments when none matches, or a driver error; on an
\* error user keeps its zero value
FindOne(coll, field, value, fault) ==
    IF fault THEN [user |-> ZeroUser, err |-> ErrStore]
    ELSE IF Matches(coll, field, value) = {} THEN [user |-> ZeroUser, err |-> ErrNoDocuments]
    ELSE [user |-> coll[Min(Matches(coll, field, value))], err |-> Nil]

\* ReadByEmail that returns the error of FindOne as it is
ReadByEmailPassesError(coll, email, fault) == FindOne(coll, "Email", email, fault)

\* Repo.ReadByEmail: every error of FindOne becomes ErrUserNotFound
ReadByEmail(coll, email, fault) ==
    LET r == FindOne(coll, "Email", email, fault)
    IN  IF r.err # Nil THEN [user |-> r.user, err |-> ErrUserNotFound]
        ELSE [user |-> r.user, err |-> Nil]

\* ReadByPhoneNumber that drops the error of FindOne
ReadByPhoneNumberNoError(coll, phone, fault) ==
    [user |-> FindOne(coll, "PhoneNumber", phone, fault).user, err |-> Nil]

\* Repo.ReadByPhoneNumber: every error of FindOne becomes ErrUserNotFound
ReadByPhoneNumber(coll, phone, fault) ==
    LET r == FindOne(coll, "PhoneNumber", phone, fault)
    IN  IF r.err # Nil THEN [user |-> r.user, err |-> ErrUserNotFound]
        ELSE [user |-> r.user, err |-> Nil]

\* ToUser that gives every user the same id
ToUserSameId(in, id, t) ==
    [ID |-> 1, Email |-> in.Email, PhoneNumber |-> in.PhoneNumber,
     Password |-> hashPassword(in.Password, id), CreatedAt |-> t]

\* InUser.ToUser: fresh id, digest of the password, creation time
ToUser(in, id, t) ==
    [ID |-> id, Email |-> in.Email, PhoneNumber |-> in.PhoneNumber,
     Password |-> hashPassword(in.Password, id), CreatedAt |-> t]

\* InsertOne that replaces the stored document with the same email
InsertOneUpsert(coll, doc, fault) ==
    IF fault THEN [coll |-> coll, err |-> ErrStore]
    ELSE IF Matches(coll, "Email", doc.Email) # {}
    THEN [coll |-> [coll EXCEPT ![Min(Matches(coll, "Email", doc.Email))] = doc],
          err |-> Nil]
    ELSE [coll |-> Append(coll, doc), err |-> Nil]

\* InsertOne that reports an error for a document it has written
InsertOneWritesOnError(coll, doc, fault) ==
    IF fault THEN [coll |-> Append(coll, doc), err |-> ErrStore]
    ELSE [coll |-> Append(coll, doc), err |-> Nil]

\* collection.InsertOne: appends the document, or fails with a driver error
\* (the collection has no unique index: the repository creates none)
InsertOne(coll, doc, fault) ==
    IF fault THEN [coll |-> coll, err |-> ErrStore]
    ELSE [coll |-> Append(coll, doc), err |-> Nil]

\* Create over a collection with a unique index on the email
CreateUniqueEmail(coll, in, id, t, fault) ==
    LET user == ToUser(in, id, t)
        r == InsertOne(coll, user, fault)
    IN  IF Matches(coll, "Email", in.Email) # {}
        THEN [coll |-> coll, user |-> user, err |-> ErrDuplicateKey]
        ELSE [coll |-> r.coll, user |-> user, err |-> r.err]

\* Repo.Create: convert, insert, return the converted user and the error
Create(coll, in, id, t, fault) ==
    LET user == ToUser(in, id, t)
        r == InsertOne(coll, user, fault)
    IN  [coll |-> r.coll, user |-> user, err |-> r.err]

----------------------------------------------------------------------------
(* Requests *)

\* a parsed body; HasUser is FALSE when a verifyotp body carries no "user"
Body(email, password, phone, code, hasUser) ==
    [Email |-> email, PhoneNumber |-> phone, Password |-> password,
     Code |-> code, HasUser |-> hasUser]

NoBody == Body("", "", "", "", FALSE)

\* bodies of POST /api/auth/verifyotp: with a user, or with a code alone
VerifyBodies ==
    {Body("", "", ph, k, TRUE) : ph \in OtpPhones, k \in Codes}
        \cup {Body("", "", "", k, FALSE) : k \in Codes}

NoLocal == [user |-> ZeroUser, token |-> Empty]

\* a response: the error message ("nil" on success) and the token field
Response(err, token) == [err |-> err, token |-> token]

NoResponse == Response(Nil, Empty)

\* what the collaborators returned during the request
NoHist ==
    [route |-> "",           \* the route of the request
     op |-> "none",          \* the operation the handler went on to
     present |-> FALSE,      \* a document matched the lookup key when it ran
     findErr |-> Nil,        \* the error FindOne returned
     hashErr |-> Nil,        \* the error GenerateFromPassword returned
     inserted |-> FALSE,     \* InsertOne added a document
     insertErr |-> Nil,      \* the error InsertOne returned
     verified |-> FALSE,     \* CompareHashAndPassword returned nil
     signed |-> FALSE,       \* SignedString returned a token
     signErr |-> Nil,        \* the error SignedString returned
     issuedAt |-> 0,         \* the clock when the claims were built
     checkCalled |-> FALSE,  \* CreateVerificationCheck was called
     checkStatus |-> "",     \* the status of its response
     elapsed |-> 0,          \* OTP routes: seconds spent in calls so far
     bearer |-> Empty,       \* GET requests: the token of the Authorization header
     jwt |-> "none"]         \* GET requests: what the JWT middleware decided

Init ==
    /\ store = <<>>
    /\ pendingOtp = {}
    /\ nextId = 1
    /\ now = 0
    /\ pc = [c \in Clients |-> "idle"]
    /\ req = [c \in Clients |-> NoBody]
    /\ local = [c \in Clients |-> NoLocal]
    /\ resp = [c \in Clients |-> NoResponse]
    /\ hist = [c \in Clients |-> NoHist]

\* a handler panicked: no recover middleware is installed, the process is gone
Crashed == \E c \in Clients : pc[c] = "panicked"

\* the handler returns: the response is final
Respond(c, err, token) ==
    /\ pc' = [pc EXCEPT ![c] = "done"]
    /\ resp' = [resp EXCEPT ![c] = Response(err, token)]

----------------------------------------------------------------------------
(* POST /api/auth/register: SignUpHandler and Svc.SignUp *)

\* SignUp's check without the comparison of the emails
SignUpCheckNoMatch(in, rd) ==
    IF ~(rd.err = ErrUserNotFound) /\ rd.err # Nil THEN rd.err ELSE Nil

\* Svc.SignUp after its lookup: the error it returns at once, or Nil to go on
SignUpCheck(in, rd) ==
    IF ~(rd.err = ErrUserNotFound) /\ rd.err # Nil THEN rd.err
    ELSE IF rd.user.Email = in.Email THEN ErrAlreadyExists
    ELSE Nil

\* SignUpHandler parses the body; Svc.SignUp looks the email up
SignUpRead(c, in, fault) ==
    /\ pc[c] = "idle"
    /\ ~Crashed
    /\ LET rd == ReadByEmail(store, in.Email, fault)
           err == SignUpCheck(in, rd)
       IN  /\ req' = [req EXCEPT ![c] = in]
           /\ local' = [local EXCEPT ![c] = NoLocal]
           /\ hist' = [hist EXCEPT ![c] =
                  [NoHist EXCEPT !.route = RouteRegister,
                                 !.op = "signup",
                                 !.present = Matches(store, "Email", in.Email) # {},
                                 !.findErr = FindOne(store, "Email", in.Email, fault).err]]
           /\ IF err # Nil
              THEN Respond(c, err, Empty)
              ELSE /\ pc' = [pc EXCEPT ![c] = "signup_create"]
                   /\ resp' = [resp EXCEPT ![c] = NoResponse]
    /\ UNCHANGED <<store, pendingOtp, nextId, now>>

\* Svc.SignUp: s.repo.Create(in), then the claims of the created user,
\* signed; SignUpHandler's response
SignUpCreate(c, fault, signFault) ==
    /\ pc[c] = "signup_create"
    /\ ~Crashed
    /\ nextId <= MaxIds
    /\ LET r == Create(store, req[c], nextId, now, fault)
           t == SignedString(MapClaims(r.user, now), JwtSecret, signFault)
       IN  /\ store' = r.coll
           /\ nextId' = nextId + 1
           /\ hist' = [hist EXCEPT ![c].inserted = (r.coll # store),
                                   ![c].insertErr = r.err,
                                   ![c].hashErr =
                                       GenerateFromPassword(req[c].Password, nextId).err,
                                   ![c].signed = (r.err = Nil /\ t.err = Nil),
                                   ![c].signErr = IF r.err = Nil THEN t.err ELSE Nil,
                                   ![c].issuedAt = IF r.err = Nil THEN now ELSE 0]
           /\ IF r.err # Nil
              THEN /\ local' = [local EXCEPT ![c].user = r.user]
                   /\ Respond(c, r.err, Empty)
              ELSE /\ local' = [local EXCEPT ![c] = [user |-> r.user, token |-> t.token]]
                   /\ Respond(c, t.err, t.token)
    /\ UNCHANGED <<pendingOtp, now, req>>

----------------------------------------------------------------------------
(* POST /api/auth/login: LoginHandler and Svc.Login *)

\* Svc.Login that does not compare the password
LoginCheckNoCompare(rd, password) == rd.err

\* Svc.Login after its lookup: the error it returns before signing, or Nil
LoginCheck(rd, password) ==
    IF rd.err # Nil THEN rd.err
    ELSE CompareHashAndPassword(rd.user.Password, password)

\* LoginHandler parses the body; Svc.Login looks the email up, compares the
\* password with the digest of the user found, and signs the user's claims
Login(c, in, fault, signFault) ==
    /\ pc[c] = "idle"
    /\ ~Crashed
    /\ LET rd == ReadByEmail(store, in.Email, fault)
           err == LoginCheck(rd, in.Password)
           t == SignedString(MapClaims(rd.user, now), JwtSecret, signFault)
           ok == err = Nil
       IN  /\ req' = [req EXCEPT ![c] = in]
           /\ local' = [local EXCEPT ![c] =
                  [user |-> rd.user, token |-> IF ok THEN t.token ELSE Empty]]
           /\ hist' = [hist EXCEPT ![c] =
                  [NoHist EXCEPT !.route = RouteLogin,
                                 !.op = "login",
                                 !.present = Matches(store, "Email", in.Email) # {},
                                 !.findErr = FindOne(store, "Email", in.Email, fault).err,
                                 !.verified =
                                     (rd.err = Nil /\
                                      CompareHashAndPassword(rd.user.Password,
                                                             in.Password) = Nil),
                                 !.signed = (ok /\ t.err = Nil),
                                 !.signErr = IF ok THEN t.err ELSE Nil,
                                 !.issuedAt = IF ok THEN now ELSE 0]]
           /\ IF err # Nil THEN Respond(c, err, Empty)
              ELSE Respond(c, t.err, t.token)
    /\ UNCHANGED <<store, pendingOtp, nextId, now>>

----------------------------------------------------------------------------
(* Twilio Verify *)

\* client.VerifyV2.CreateVerification: starts a verification for the phone
CreateVerification(pending, phone, fault) ==
    IF fault THEN [pending |-> pending, err |-> ErrTwilio]
    ELSE [pending |-> pending \cup {phone}, err |-> Nil]

\* client.VerifyV2.CreateVerificationCheck: an error when the call fails or
\* the phone has no verification in flight; otherwise a response whose
\* status is "approved" for the code that was sent and "pending" for any
\* other code
CreateVerificationCheck(pending, phone, code, fault) ==
    IF fault \/ phone \notin pending
    THEN [pending |-> pending, status |-> "", err |-> ErrTwilio]
    ELSE IF code = SentCode
    THEN [pending |-> pending \ {phone}, status |-> "approved", err |-> Nil]
    ELSE [pending |-> pending, status |-> "pending", err |-> Nil]

\* twilioSendOTP: the error of CreateVerification
twilioSendOTP(r) == r.err

\* twilioVerifyOTP: the error of CreateVerificationCheck; nil for an approved
\* status, and nil for every other status too
twilioVerifyOTP(r) ==
    IF r.err # Nil THEN r.err
    ELSE IF r.status = "approved" THEN Nil
    ELSE Nil

----------------------------------------------------------------------------
(* POST /api/auth/sendotp: sendSMS *)

\* the context derived with appTimeout is discarded (_, cancel := ...): the
\* call to Twilio is made without it and runs for as long as it takes
sendSMS(c, in, fault, secs) ==
    /\ pc[c] = "idle"
    /\ ~Crashed
    /\ LET r == CreateVerification(pendingOtp, in.PhoneNumber, fault)
       IN  /\ pendingOtp' = r.pending
           /\ req' = [req EXCEPT ![c] = in]
           /\ local' = [local EXCEPT ![c] = NoLocal]
           /\ hist' = [hist EXCEPT ![c] =
                  [NoHist EXCEPT !.route = RouteSendOtp, !.op = "sendotp",
                                 !.elapsed = secs]]
           /\ Respond(c, twilioSendOTP(r), Empty)
    /\ UNCHANGED <<store, nextId, now>>

----------------------------------------------------------------------------
(* POST /api/auth/verifyotp: verifySMS and Svc.LoginPhoneOtp *)

\* verifySMS parses the body and reads newData.User.PhoneNumber, which
\* panics when the body has no "user"; Svc.LoginPhoneOtp looks the phone up
\* and signs the claims of the user found
VerifyLogin(c, in, fault, signFault, secs) ==
    /\ pc[c] = "idle"
    /\ ~Crashed
    /\ req' = [req EXCEPT ![c] = in]
    /\ IF ~in.HasUser
       THEN /\ pc' = [pc EXCEPT ![c] = "panicked"]
            /\ hist' = [hist EXCEPT ![c] =
                   [NoHist EXCEPT !.route = RouteVerifyOtp, !.op = "verifyotp"]]
            /\ local' = [local EXCEPT ![c] = NoLocal]
            /\ resp' = [resp EXCEPT ![c] = NoResponse]
       ELSE LET rd == ReadByPhoneNumber(store, in.PhoneNumber, fault)
                t == SignedString(MapClaims(rd.user, now), JwtSecret, signFault)
            IN  /\ local' = [local EXCEPT ![c] =
                       [user |-> rd.user, token |-> IF rd.err = Nil THEN t.token ELSE Empty]]
                /\ hist' = [hist EXCEPT ![c] =
                       [NoHist EXCEPT !.route = RouteVerifyOtp,
                                      !.op = "verifyotp",
                                      !.present =
                                          Matches(store, "PhoneNumber", in.PhoneNumber) # {},
                                      !.findErr =
                                          FindOne(store, "PhoneNumber", in.PhoneNumber, fault).err,
                                      !.signed = (rd.err = Nil /\ t.err = Nil),
                                      !.signErr = IF rd.err = Nil THEN t.err ELSE Nil,
                                      !.issuedAt = IF rd.err = Nil THEN now ELSE 0,
                                      !.elapsed = secs]]
                /\ IF rd.err # Nil THEN Respond(c, rd.err, Empty)
                   ELSE IF t.err # Nil THEN Respond(c, t.err, Empty)
                   ELSE /\ pc' = [pc EXCEPT ![c] = "otp_check"]
                        /\ resp' = [resp EXCEPT ![c] = NoResponse]
    /\ UNCHANGED <<store, pendingOtp, nextId, now>>

\* verifySMS: twilioVerifyOTP, then the error or the token
VerifyCheck(c, fault, secs) ==
    /\ pc[c] = "otp_check"
    /\ ~Crashed
    /\ LET r == CreateVerificationCheck(pendingOtp, req[c].PhoneNumber, req[c].Code, fault)
           err == twilioVerifyOTP(r)
       IN  /\ pendingOtp' = r.pending
           /\ hist' = [hist EXCEPT ![c].checkCalled = TRUE,
                                   ![c].checkStatus = r.status,
                                   ![c].elapsed = @ + secs]
           /\ IF err # Nil THEN Respond(c, err, Empty)
              ELSE Respond(c, Nil, local[c].token)
    /\ UNCHANGED <<store, nextId, now, req, local>>

----------------------------------------------------------------------------
(* A body that fiber's BodyParser rejects *)

\* SignUpHandler, LoginHandler, sendSMS, verifySMS: the parser's error is
\* the answer, and the service is not called
ParseError(c, route) ==
    /\ pc[c] = "idle"
    /\ ~Crashed
    /\ req' = [req EXCEPT ![c] = NoBody]
    /\ local' = [local EXCEPT ![c] = NoLocal]
    /\ hist' = [hist EXCEPT ![c] = [NoHist EXCEPT !.route = route]]
    /\ Respond(c, ErrBodyParse, Empty)
    /\ UNCHANGED <<store, pendingOtp, nextId, now>>

----------------------------------------------------------------------------
(* The router: routes and middleware in the order main registers them *)

\* app.Get / app.Post: a handler for one method and path
Handler(method, path) == [kind |-> "route", method |-> method, path |-> path]

\* app.Use(jwtware.New(...)): middleware for every method and path
UseJwt == [kind |-> "use", method |-> "*", path |-> "*"]

CreatePhoneOtpRoutes == <<Handler("POST", RouteSendOtp), Handler("POST", RouteVerifyOtp)>>

\* CreateAuthRoutes without the JWT middleware
CreateAuthRoutesNoJwt == <<Handler("POST", RouteRegister), Handler("POST", RouteLogin)>>

\* the register and login routes, then the JWT middleware
CreateAuthRoutes ==
    <<Handler("POST", RouteRegister), Handler("POST", RouteLogin), UseJwt>>

CreateAllQuestionRoutes ==
    <<Handler("GET", RouteAllQuestions), Handler("GET", RouteQuestionById)>>

\* main: the ping, the OTP routes, the auth routes, the question routes
main ==
    <<Handler("GET", RoutePing)>> \o CreatePhoneOtpRoutes \o CreateAuthRoutes
        \o CreateAllQuestionRoutes

\* jwtware: the bearer token is signed with the configured key and has not
\* expired
JwtAccepts(bearer, t) ==
    /\ bearer # Empty
    /\ bearer[4] = JwtSecret
    /\ TokenClaims(bearer).exp >= t

\* the router walks the stack from entry i: the first route of the method and
\* path handles the request; the middleware on the way lets the request
\* pass (c.Next) only with an accepted token
RECURSIVE Dispatch(_, _, _, _, _, _, _)
Dispatch(stack, i, method, path, bearer, t, jwt) ==
    IF i > Len(stack)
    THEN [handler |-> "", err |-> ErrNoRoute, jwt |-> jwt]
    ELSE IF stack[i].kind = "use"
    THEN IF JwtAccepts(bearer, t)
         THEN Dispatch(stack, i + 1, method, path, bearer, t, "accepted")
         ELSE [handler |-> "",
               err |-> IF bearer = Empty THEN ErrMissingJwt ELSE ErrInvalidJwt,
               jwt |-> "rejected"]
    ELSE IF stack[i].method = method /\ stack[i].path = path
    THEN [handler |-> path, err |-> Nil, jwt |-> jwt]
    ELSE Dispatch(stack, i + 1, method, path, bearer, t, jwt)

\* tokens a client can present: none, one signed with the configured key,
\* one signed with another key, one that expires as the clock starts
Bearers ==
    {Empty,
     SignedString(MapClaims([ZeroUser EXCEPT !.ID = 1], 0), JwtSecret, FALSE).token,
     SignedString(MapClaims([ZeroUser EXCEPT !.ID = 1], 0), "forged", FALSE).token,
     SignedString(MapClaims([ZeroUser EXCEPT !.ID = 1], 0 - HoursValid), JwtSecret, FALSE).token}

\* a GET request: the ping, a question route, or a path without a route
Get(c, path, bearer) ==
    /\ pc[c] = "idle"
    /\ ~Crashed
    /\ LET d == Dispatch(main, 1, "GET", path, bearer, now, "none")
       IN  /\ req' = [req EXCEPT ![c] = NoBody]
           /\ local' = [local EXCEPT ![c] = NoLocal]
           /\ hist' = [hist EXCEPT ![c] =
                  [NoHist EXCEPT !.route = path,
                                 !.op = IF d.handler = "" THEN "none" ELSE "get",
                                 !.bearer = bearer,
                                 !.jwt = d.jwt]]
           /\ Respond(c, d.err, Empty)
    /\ UNCHANGED <<store, pendingOtp, nextId, now>>

----------------------------------------------------------------------------
(* Environment *)

\* the client has read the response; the goroutine ends
Return(c) ==
    /\ pc[c] = "done"
    /\ ~Crashed
    /\ pc' = [pc EXCEPT ![c] = "idle"]
    /\ req' = [req EXCEPT ![c] = NoBody]
    /\ local' = [local EXCEPT ![c] = NoLocal]
    /\ resp' = [resp EXCEPT ![c] = NoResponse]
    /\ hist' = [hist EXCEPT ![c] = NoHist]
    /\ UNCHANGED <<store, pendingOtp, nextId, now>>

\* time passes
Tick ==
    /\ now < MaxTime
    /\ ~Crashed
    /\ now' = now + 1
    /\ UNCHANGED <<store, pendingOtp, nextId, pc, req, local, resp, hist>>

\* the create of a SignUp, requests of the login route, rejected bodies, and
\* the reading of a response
AuthRequests ==
    \/ \E c \in Clients, f \in BOOLEAN, sf \in BOOLEAN : SignUpCreate(c, f, sf)
    \/ \E c \in Clients, e \in LoginEmails, p \in LoginPasswords, f \in BOOLEAN,
          sf \in BOOLEAN :
           Login(c, Body(e, p, "", "", FALSE), f, sf)
    \/ \E c \in Clients, r \in Routes : ParseError(c, r)
    \/ \E c \in Clients : Return(c)

\* every call of an OTP route returns within the deadline
Next ==
    \/ AuthRequests
    \/ \E c \in Clients, e \in SignUpEmails, p \in SignUpPasswords, ph \in SignUpPhones,
          f \in BOOLEAN :
           SignUpRead(c, Body(e, p, ph, "", FALSE), f)
    \/ \E c \in Clients, ph \in SendPhones, f \in BOOLEAN, d \in InTime :
           sendSMS(c, Body("", "", ph, "", FALSE), f, d)
    \/ \E c \in Clients, b \in VerifyBodies, f \in BOOLEAN, sf \in BOOLEAN,
          d \in InTime :
           VerifyLogin(c, b, f, sf, d)
    \/ \E c \in Clients, f \in BOOLEAN, d \in InTime : VerifyCheck(c, f, d)

\* Requests that overlap, each served within one reading of the clock
Spec == Init /\ [][Next]_vars

\* One request at a time, while the clock advances
InitClock ==
    /\ store = <<>>
    /\ pendingOtp = {}
    /\ nextId = 1
    /\ now = 0
    /\ pc = [c \in Clients |-> IF c = 1 THEN "idle" ELSE "off"]
    /\ req = [c \in Clients |-> NoBody]
    /\ local = [c \in Clients |-> NoLocal]
    /\ resp = [c \in Clients |-> NoResponse]
    /\ hist = [c \in Clients |-> NoHist]

\* the calls of an OTP route take any time, and the clock advances
NextClock ==
    \/ AuthRequests
    \/ \E c \in Clients, e \in SignUpEmailsSeq, p \in SignUpPasswords, ph \in SignUpPhones,
          f \in BOOLEAN :
           SignUpRead(c, Body(e, p, ph, "", FALSE), f)
    \/ \E c \in Clients, ph \in SendPhones, f \in BOOLEAN, d \in CallSeconds :
           sendSMS(c, Body("", "", ph, "", FALSE), f, d)
    \/ \E c \in Clients, b \in VerifyBodies, f \in BOOLEAN, sf \in BOOLEAN,
          d \in CallSeconds :
           VerifyLogin(c, b, f, sf, d)
    \/ \E c \in Clients, f \in BOOLEAN, d \in CallSeconds : VerifyCheck(c, f, d)
    \/ \E c \in Clients, path \in GetPaths, b \in Bearers : Get(c, path, b)
    \/ Tick

SpecClock == InitClock /\ [][NextClock]_vars

----------------------------------------------------------------------------
(* Properties *)

\* request c has been answered by the handler of route op
Done(c, op) == pc[c] = "done" /\ hist[c].op = op

\* the user a lookup by email returns from the collection as it is now; the
\* collection only grows, so for an email that was present when a request
\* looked it up this is the user that request was given
StoredUser(email) == FindOne(store, "Email", email, FALSE).user

\* the errors bcrypt's comparison returns for a password that does not match
InvalidCredentials == {ErrMismatchedHashAndPassword, ErrHashTooShort}

\* C1: a verifyotp response carries the token only if Twilio's check of the
\* submitted code returned the status "approved"; every other outcome is an
\* error response without a token.
C1_TokenOnlyIfApproved ==
    \A c \in Clients :
        Done(c, "verifyotp") =>
            IF hist[c].checkStatus = "approved"
            THEN TRUE
            ELSE resp[c].err # Nil /\ resp[c].token = Empty

\* C2: a SignUp whose email no stored user had when it was looked up, and
\* during which neither the insert nor the signing failed, returns a
\* non-empty token and no error, and a lookup by that email then returns the
\* user it created.
C2_FreshEmailSignUpSucceeds ==
    \A c \in Clients :
        (/\ Done(c, "signup")
         /\ ~hist[c].present
         /\ hist[c].insertErr = Nil
         /\ hist[c].signErr = Nil)
        => /\ resp[c].err = Nil
           /\ resp[c].token # Empty
           /\ ReadByEmail(store, req[c].Email, FALSE) = [user |-> local[c].user, err |-> Nil]

\* C3: a SignUp whose email a stored user already had when the call began
\* fails with "already exists", returns no token and inserts nothing.
C3_DuplicateEmailRejected ==
    \A c \in Clients :
        (Done(c, "signup") /\ hist[c].present)
        => /\ resp[c].err = ErrAlreadyExists
           /\ resp[c].token = Empty
           /\ ~hist[c].inserted

\* C4: a SignUp whose lookup failed with an error other than "no documents"
\* is answered with that store error and without a token, and has created
\* no user.  (Stated for a non-empty email: the empty email is refused
\* before the create whatever the lookup returned.)
C4_LookupErrorAborts ==
    \A c \in Clients :
        (Done(c, "signup") /\ hist[c].findErr = ErrStore /\ req[c].Email # "")
        => /\ resp[c].err = ErrStore
           /\ resp[c].token = Empty
           /\ ~hist[c].inserted

\* C5 as stated: whenever a user with the email is stored and the password
\* matches that user's digest, Login returns a token whose email claim is
\* the input email and whose userid claim is that user's id.
C5_MatchingPasswordAlwaysToken ==
    \A c \in Clients :
        (/\ Done(c, "login")
         /\ hist[c].present
         /\ CompareHashAndPassword(StoredUser(req[c].Email).Password, req[c].Password) = Nil)
        => /\ resp[c].token # Empty
           /\ TokenClaims(resp[c].token).email = req[c].Email
           /\ TokenClaims(resp[c].token).userid = StoredUser(req[c].Email).ID

\* C5 as amended: whenever the lookup returns a stored user with the email,
\* the password matches that user's digest and signing does not fail, Login
\* returns without error a token whose email claim is the input email and
\* whose userid claim is that user's id.
C5_LoginTokenClaims ==
    \A c \in Clients :
        (/\ Done(c, "login")
         /\ hist[c].present
         /\ hist[c].findErr = Nil
         /\ hist[c].signErr = Nil
         /\ CompareHashAndPassword(StoredUser(req[c].Email).Password, req[c].Password) = Nil)
        => /\ resp[c].err = Nil
           /\ resp[c].token # Empty
           /\ TokenClaims(resp[c].token).email = req[c].Email
           /\ TokenClaims(resp[c].token).userid = StoredUser(req[c].Email).ID
           /\ StoredUser(req[c].Email).Email = req[c].Email

\* a Login for a stored user with the right password has returned a token
C5_Witness ==
    \E c \in Clients :
        /\ Done(c, "login")
        /\ hist[c].present
        /\ CompareHashAndPassword(StoredUser(req[c].Email).Password, req[c].Password) = Nil
        /\ resp[c].token # Empty

\* C6 as stated: whenever the password does not match the digest of the
\* stored user with the email, Login fails with the invalid-credentials
\* error and returns no token.
C6_MismatchAlwaysInvalidCredentials ==
    \A c \in Clients :
        (/\ Done(c, "login")
         /\ hist[c].present
         /\ CompareHashAndPassword(StoredUser(req[c].Email).Password, req[c].Password) # Nil)
        => /\ resp[c].err \in InvalidCredentials
           /\ resp[c].token = Empty

\* C6 as amended: whenever the password does not match the digest of the
\* stored user with the email, Login fails and returns no token; the error
\* is the invalid-credentials error when the lookup returned the user, and
\* "user not found" when the lookup itself failed.
C6_MismatchNoToken ==
    \A c \in Clients :
        (/\ Done(c, "login")
         /\ hist[c].present
         /\ CompareHashAndPassword(StoredUser(req[c].Email).Password, req[c].Password) # Nil)
        => /\ resp[c].token = Empty
           /\ local[c].token = Empty
           /\ ~hist[c].signed
           /\ IF hist[c].findErr = Nil
              THEN resp[c].err \in InvalidCredentials
              ELSE resp[c].err = ErrUserNotFound

\* a Login for a stored user with a wrong password has been refused with
\* the invalid-credentials error
C6_Witness ==
    \E c \in Clients :
        /\ Done(c, "login")
        /\ hist[c].present
        /\ hist[c].findErr = Nil
        /\ StoredUser(req[c].Email).Password # Empty
        /\ CompareHashAndPassword(StoredUser(req[c].Email).Password, req[c].Password) # Nil
        /\ resp[c].err = ErrMismatchedHashAndPassword

\* C7: the error of a Login refused for an unknown email equals the error of
\* a Login refused for a known email (of a user with a proper digest) with a
\* wrong password.
C7_LoginFailureUniform ==
    \A c1, c2 \in Clients :
        (/\ Done(c1, "login") /\ Done(c2, "login")
         /\ ~hist[c1].present /\ resp[c1].err # Nil
         /\ hist[c2].present /\ hist[c2].findErr = Nil /\ ~hist[c2].verified
         /\ StoredUser(req[c2].Email).Password # Empty)
        => resp[c1].err = resp[c2].err

\* C8: a SignUp during whose conversion the hashing of the password failed
\* answers with an error and no token, and has inserted no user.
C8_HashFailureAborts ==
    \A c \in Clients :
        (Done(c, "signup") /\ hist[c].hashErr # Nil)
        => /\ resp[c].err # Nil
           /\ resp[c].token = Empty
           /\ ~hist[c].inserted

\* C9: a verifyotp request whose phone number no stored user had when it was
\* looked up is answered with "user not found" and without a token, no
\* token is signed for it, and Twilio's code check is not called for it.
C9_UnknownPhoneNotFound ==
    \A c \in Clients :
        (hist[c].op = "verifyotp" /\ req[c].HasUser /\ ~hist[c].present)
        => /\ pc[c] = "done"
           /\ resp[c].err = ErrUserNotFound
           /\ resp[c].token = Empty
           /\ local[c].token = Empty
           /\ ~hist[c].signed
           /\ ~hist[c].checkCalled

\* a verifyotp request for a phone number of no stored user has been
\* answered while another user is stored and a verification is in flight
C9_Witness ==
    \E c \in Clients :
        /\ Done(c, "verifyotp")
        /\ req[c].HasUser
        /\ ~hist[c].present
        /\ resp[c].err = ErrUserNotFound
        /\ store # <<>>
        /\ pendingOtp # {}

\* C10: the store does not reject an insert because of the email: of two
\* SignUps for the same email that both looked it up before either
\* created, each one whose insert met no driver error has added its user,
\* and is answered with a token unless signing failed; so both can succeed
\* and leave two stored users with one email.
C10_RaceInsertsBoth ==
    \A c1, c2 \in Clients :
        (/\ c1 # c2
         /\ Done(c1, "signup") /\ Done(c2, "signup")
         /\ req[c1].Email = req[c2].Email
         /\ ~hist[c1].present /\ ~hist[c2].present
         /\ resp[c1].err # ErrAlreadyExists /\ resp[c2].err # ErrAlreadyExists)
        => \A c \in {c1, c2} :
               hist[c].insertErr # ErrStore =>
                   /\ hist[c].inserted
                   /\ \E i \in 1..Len(store) : store[i] = local[c].user
                   /\ local[c].user.Email = req[c].Email
                   /\ hist[c].signErr = Nil =>
                          resp[c].err = Nil /\ resp[c].token # Empty

\* two SignUps for one email, neither of which found it, have both returned
\* a token, and two users with that email are stored
C10_Witness ==
    \E c1, c2 \in Clients :
        /\ c1 # c2
        /\ Done(c1, "signup") /\ Done(c2, "signup")
        /\ req[c1].Email = req[c2].Email
        /\ ~hist[c1].present /\ ~hist[c2].present
        /\ resp[c1].token # Empty /\ resp[c2].token # Empty
        /\ Cardinality(Matches(store, "Email", req[c1].Email)) = 2

\* C11: the password field of every stored user is a digest the credential
\* hasher produced, and the user a SignUp created never carries the
\* plaintext of its request as its password.
C11_StoredPasswordIsDigest ==
    /\ \A i \in 1..Len(store) : store[i].Password \in Digests
    /\ \A c \in Clients :
           (hist[c].op = "signup" /\ hist[c].inserted)
           => local[c].user.Password # Bytes(req[c].Password)

\* C12: a SignUp with the empty email, looked up when no stored user had the
\* empty email, is not answered "already exists": it goes on to the create.
C12_EmptyEmailNotDuplicate ==
    \A c \in Clients :
        (hist[c].op = "signup" /\ req[c].Email = "" /\ ~hist[c].present)
        => /\ resp[c].err # ErrAlreadyExists
           /\ \/ pc[c] = "signup_create"
              \/ hist[c].inserted
              \/ hist[c].insertErr # Nil

\* C13: every token SignUp, Login or LoginPhoneOtp has issued is issued for
\* a stored user and carries that user's id as userid, that user's email as
\* email, and as expiration the instant its claims were built plus 72 hours.
C13_TokenClaims ==
    \A c \in Clients :
        local[c].token # Empty
        => /\ \E i \in 1..Len(store) : store[i] = local[c].user
           /\ TokenClaims(local[c].token).userid = local[c].user.ID
           /\ TokenClaims(local[c].token).email = local[c].user.Email
           /\ TokenClaims(local[c].token).exp = hist[c].issuedAt + HoursValid

\* LoginPhoneOtp has issued a token for a stored user after the clock advanced
C13_Witness ==
    \E c \in Clients :
        /\ local[c].token # Empty
        /\ hist[c].issuedAt > 0
        /\ hist[c].op = "verifyotp"
        /\ TokenClaims(local[c].token).exp = hist[c].issuedAt + HoursValid

\* C14: a SignUp whose Create failed is answered with the error of the store
\* and without a token; no token was signed for it, and the user it had
\* converted is not in the store.
C14_CreateFailureNoToken ==
    \A c \in Clients :
        (hist[c].op = "signup" /\ hist[c].insertErr # Nil)
        => /\ pc[c] = "done"
           /\ resp[c].err = hist[c].insertErr
           /\ resp[c].err = ErrStore
           /\ resp[c].token = Empty
           /\ local[c].token = Empty
           /\ ~hist[c].signed
           /\ ~hist[c].inserted
           /\ \A i \in 1..Len(store) : store[i].ID # local[c].user.ID

\* a SignUp has been refused because its Create failed, while another
\* SignUp's Create succeeded
C14_Witness ==
    \E c \in Clients :
        /\ Done(c, "signup")
        /\ hist[c].insertErr = ErrStore
        /\ resp[c].err = ErrStore
        /\ local[c].user.ID # 0
        /\ store # <<>>

\* C15: a Login whose lookup failed, because no document matched or because
\* the store failed, is answered with the error ReadByEmail returned,
\* unmodified, and without a token; no token was signed for it; and the
\* answer is the same for "no such user" and for "store down".
C15_LoginLookupFailure ==
    /\ \A c \in Clients :
           (Done(c, "login") /\ hist[c].findErr # Nil)
           => /\ resp[c].err = ReadByEmail(<<>>, req[c].Email, hist[c].findErr = ErrStore).err
              /\ resp[c].err = ErrUserNotFound
              /\ resp[c].token = Empty
              /\ local[c].token = Empty
              /\ ~hist[c].signed
              /\ ~hist[c].verified
    /\ \A c1, c2 \in Clients :
           (/\ Done(c1, "login") /\ hist[c1].findErr = ErrNoDocuments
            /\ Done(c2, "login") /\ hist[c2].findErr = ErrStore)
           => resp[c1] = resp[c2]

\* one Login was refused for an unknown email and another because the store
\* failed while looking up a registered email
C15_Witness ==
    \E c1, c2 \in Clients :
        /\ Done(c1, "login") /\ hist[c1].findErr = ErrNoDocuments
        /\ Done(c2, "login") /\ hist[c2].findErr = ErrStore /\ hist[c2].present
        /\ resp[c1].err = ErrUserNotFound
        /\ resp[c2].err = ErrUserNotFound

\* the request tried to sign a token
SignAttempted(h) == h.signed \/ h.signErr # Nil

\* C16: the steps of one call run in order.  The step of SignUp that hashes
\* the password and creates the record is taken only by a call whose
\* existence check has completed with "not found" and without a matching
\* email; SignUp signs a token only after its create succeeded; Login signs
\* a token only after the password was verified against the digest.
C16_StepOrder ==
    [][\A c \in Clients :
          /\ (pc'[c] # pc[c] /\ (store' # store \/ nextId' # nextId))
             => /\ hist[c].op = "signup"
                /\ pc[c] = "signup_create"
                /\ hist[c].findErr # Nil
                /\ ~hist[c].inserted /\ hist[c].insertErr = Nil
                /\ ~SignAttempted(hist[c])
                /\ SignUpCheck(req[c], ReadByEmail(<<>>, req[c].Email, FALSE)) = Nil
          /\ (hist'[c].op = "signup" /\ SignAttempted(hist'[c]))
             => hist'[c].inserted /\ hist'[c].insertErr = Nil
          /\ (hist'[c].op = "login" /\ SignAttempted(hist'[c]))
             => hist'[c].verified /\ hist'[c].findErr = Nil
      ]_vars

\* a SignUp has created its user and signed a token, and a Login has
\* verified a password and signed a token
C16_Witness ==
    \E c1, c2 \in Clients :
        /\ Done(c1, "signup") /\ hist[c1].inserted /\ hist[c1].signed
        /\ Done(c2, "login") /\ hist[c2].verified /\ hist[c2].signed

\* C17: whenever a verifyotp request is at, or past, the call of Twilio's
\* code check, LoginPhoneOtp has already found a stored user by the phone of
\* the request and signed a token carrying that user's id and email.
C17_TokenBeforeOtpCheck ==
    \A c \in Clients :
        (hist[c].op = "verifyotp" /\ (pc[c] = "otp_check" \/ hist[c].checkCalled))
        => /\ hist[c].findErr = Nil
           /\ hist[c].signed
           /\ local[c].token # Empty
           /\ local[c].user.PhoneNumber = req[c].PhoneNumber
           /\ \E i \in 1..Len(store) : store[i] = local[c].user
           /\ TokenClaims(local[c].token).userid = local[c].user.ID
           /\ TokenClaims(local[c].token).email = local[c].user.Email

\* a verifyotp request holds its token and has not yet called the code check
C17_Witness ==
    \E c \in Clients :
        /\ hist[c].op = "verifyotp"
        /\ pc[c] = "otp_check"
        /\ ~hist[c].checkCalled
        /\ local[c].token # Empty
        /\ resp[c].token = Empty

\* SignUp c created its user and then failed to sign the token
SignFailedAfterCreate(c) ==
    Done(c, "signup") /\ hist[c].inserted /\ hist[c].signErr # Nil

\* C18: a SignUp whose signing failed after its create is answered with an
\* error and without a token while the user it created stays in the store;
\* and a SignUp with the same email that starts after that is answered
\* "already exists".
C18_SignFailureKeepsUser ==
    [][\A c1 \in Clients :
          /\ SignFailedAfterCreate(c1)
             => /\ resp[c1].err # Nil
                /\ resp[c1].token = Empty
                /\ \E i \in 1..Len(store) : store[i] = local[c1].user
                /\ \E i \in 1..Len(store') : store'[i] = local[c1].user
          /\ \A c2 \in Clients \ {c1} :
                 (/\ SignFailedAfterCreate(c1)
                  /\ pc[c2] = "idle" /\ pc'[c2] # "idle"
                  /\ hist'[c2].op = "signup"
                  /\ req'[c2].Email = req[c1].Email)
                 => /\ pc'[c2] = "done"
                    /\ resp'[c2].err = ErrAlreadyExists
                    /\ resp'[c2].token = Empty
      ]_vars

\* C19: no step modifies or deletes a stored record.  Every record stays as
\* it is, at its place; a step of Login, LoginPhoneOtp or an OTP route
\* leaves the store unchanged; and a step that changes the store is the
\* create of a SignUp, which appends exactly one record, the user that
\* SignUp converted, with an id no stored record has.
C19_StoreOnlyGrows ==
    [][/\ Len(store') >= Len(store)
       /\ \A i \in 1..Len(store) : store'[i] = store[i]
       /\ \A c \in Clients :
              (pc'[c] # pc[c] /\ hist'[c].op \in {"login", "verifyotp", "sendotp"})
              => store' = store
       /\ store' # store
          => /\ Len(store') = Len(store) + 1
             /\ \A i \in 1..Len(store) : store[i].ID # store'[Len(store')].ID
             /\ \E c \in Clients :
                    /\ pc[c] = "signup_create" /\ pc'[c] = "done"
                    /\ local'[c].user = store'[Len(store')]
      ]_vars

\* with two users stored, a Login and a verifyotp request have issued tokens
C19_Witness ==
    /\ Len(store) >= 2
    /\ \E c1, c2 \in Clients :
           /\ Done(c1, "login") /\ hist[c1].signed
           /\ Done(c2, "verifyotp") /\ hist[c2].signed

\* C20: a sendotp or verifyotp request whose calls to the store and to
\* Twilio took longer than the deadline of 10 seconds is answered with the
\* timeout error and without a token.
C20_OtpDeadline ==
    \A c \in Clients :
        (/\ pc[c] = "done"
         /\ hist[c].op \in {"sendotp", "verifyotp"}
         /\ hist[c].elapsed > appTimeout)
        => /\ resp[c].err = ErrDeadlineExceeded
           /\ resp[c].token = Empty

\* C21: when a SignUp with email E and password P has returned a token, its
\* user is the only stored user with E, and a Login with E and P then found
\* that user and met no signing failure, the Login returns a token whose
\* userid claim equals the userid claim of the SignUp's token.
C21_LoginAfterSignUp ==
    \A c1, c2 \in Clients :
        (/\ Done(c1, "signup") /\ resp[c1].err = Nil /\ resp[c1].token # Empty
         /\ Done(c2, "login")
         /\ req[c2].Email = req[c1].Email
         /\ req[c2].Password = req[c1].Password
         /\ hist[c2].present /\ hist[c2].findErr = Nil /\ hist[c2].signErr = Nil
         /\ Cardinality(Matches(store, "Email", req[c1].Email)) = 1)
        => /\ resp[c2].err = Nil
           /\ resp[c2].token # Empty
           /\ TokenClaims(resp[c2].token).userid = TokenClaims(resp[c1].token).userid

\* C22: when requests are served one after the other, so that no two
\* SignUps interleave, no two stored users have the same email.
C22_SequentialEmailsUnique ==
    \A i, j \in 1..Len(store) :
        i # j => store[i].Email # store[j].Email

\* C23 as stated: stored users registered under different emails have
\* different phone numbers.
C23_PhonesUnique ==
    \A i, j \in 1..Len(store) :
        store[i].Email # store[j].Email
        => store[i].PhoneNumber # store[j].PhoneNumber

\* C23 as amended: stored users can share a phone number, and the token
\* LoginPhoneOtp signs for a phone is for one determined user: the first
\* stored user with that phone, whose id no other stored user has.
C23_OtpTokenForFirstMatch ==
    \A c \in Clients :
        (hist[c].op = "verifyotp" /\ hist[c].signed)
        => /\ Matches(store, "PhoneNumber", req[c].PhoneNumber) # {}
           /\ local[c].user = store[Min(Matches(store, "PhoneNumber", req[c].PhoneNumber))]
           /\ TokenClaims(local[c].token).userid = local[c].user.ID
           /\ Cardinality({i \in 1..Len(store) : store[i].ID = local[c].user.ID}) = 1

\* LoginPhoneOtp has signed a token for a phone that two stored users, with
\* different emails, share
C23_Witness ==
    \E c \in Clients :
        /\ hist[c].op = "verifyotp" /\ hist[c].signed
        /\ \E i, j \in Matches(store, "PhoneNumber", req[c].PhoneNumber) :
               /\ i < j
               /\ store[i].Email # store[j].Email
               /\ local[c].user = store[i]

\* C24: no verifyotp request panics; one whose body has no user object is
\* answered with an error and without a token, and no lookup was made for it.
C24_VerifyNeverPanics ==
    \A c \in Clients :
        hist[c].op = "verifyotp"
        => /\ pc[c] # "panicked"
           /\ ~req[c].HasUser
              => /\ pc[c] = "done"
                 /\ resp[c].err # Nil
                 /\ resp[c].token = Empty
                 /\ hist[c].findErr = Nil
                 /\ ~hist[c].signed

\* the routes registered after CreateAuthRoutes
QuestionRoutes == {RouteAllQuestions, RouteQuestionById}

\* C25: the ping and the register, login, sendotp and verifyotp routes are
\* dispatched to their handlers whatever token is presented, without passing
\* the JWT middleware; a question route is dispatched to its handler only
\* after the middleware accepted a token signed with the configured secret,
\* and a request for one without such a token is answered by the middleware.
C25_JwtGuardsLaterRoutes ==
    /\ \A b \in Bearers :
           /\ Dispatch(main, 1, "GET", RoutePing, b, now, "none")
                  = [handler |-> RoutePing, err |-> Nil, jwt |-> "none"]
           /\ \A r \in Routes :
                  Dispatch(main, 1, "POST", r, b, now, "none")
                      = [handler |-> r, err |-> Nil, jwt |-> "none"]
    /\ \A c \in Clients :
           (pc[c] = "done" /\ hist[c].route = RoutePing)
           => hist[c].op = "get" /\ hist[c].jwt = "none" /\ resp[c].err = Nil
    /\ \A c \in Clients :
           (pc[c] = "done" /\ hist[c].route \in QuestionRoutes)
           => IF hist[c].op = "get"
              THEN /\ hist[c].jwt = "accepted"
                   /\ hist[c].bearer # Empty
                   /\ hist[c].bearer[4] = JwtSecret
                   /\ resp[c].err = Nil
              ELSE /\ hist[c].jwt = "rejected"
                   /\ ~JwtAccepts(hist[c].bearer, now)
                   /\ resp[c].err \in {ErrMissingJwt, ErrInvalidJwt}

\* a question route has been served for a token signed with the configured
\* secret, after the clock advanced
C25_Witness ==
    \E c \in Clients :
        /\ pc[c] = "done"
        /\ hist[c].route = RouteQuestionById
        /\ hist[c].op = "get"
        /\ hist[c].jwt = "accepted"
        /\ now > 0

=============================================================================
